---- MODULE Spec2Model ----
(***************************************************************************)
(* Model of guided_diffusion/gaussian_diffusion.py: the noise-schedule     *)
(* builder, the time-step respacer, the construction of a (respaced)       *)
(* diffusion process and the guided sampling loop p_sample_loop.           *)
(*                                                                         *)
(* Real numbers are exact rationals <<n, d>> (d > 0, lowest terms); the    *)
(* two non-finite float64 values the constructors can produce are          *)
(* NaN == <<0, 0>> (0.0/0.0) and Inf == <<1, 0>> (x/0.0, x > 0).           *)
(* Tensors are scalars: one image, one value.                              *)
(***************************************************************************)
EXTENDS Integers, Sequences, FiniteSets, TLC

\* ------------------------------------------------------------------------
\* Bounds of the model
\* ------------------------------------------------------------------------
\* largest process length of the small configurations
MaxN == 4
\* largest inner repeat count the external policy set_alternate_length returns
MaxAlt == 2

\* ------------------------------------------------------------------------
\* Exact arithmetic (numpy float64 values, without rounding)
\* ------------------------------------------------------------------------
Abs(x) == IF x < 0 THEN -x ELSE x

Min(a, b) == IF a <= b THEN a ELSE b

RECURSIVE GCD(_, _)
GCD(a, b) == IF b = 0 THEN a ELSE GCD(b, a % b)

NaN == <<0, 0>>

Inf == <<1, 0>>

IsNaN(x) == x[2] = 0 /\ x[1] = 0

IsFinite(x) == x[2] > 0

\* n/d in lowest terms, d > 0
Norm(n, d) ==
    LET g == GCD(Abs(n), d) IN <<n \div g, d \div g>>

R(n) == <<n, 1>>

\* x * y, cross-reduced so that no intermediate exceeds the result
RMul(x, y) ==
    IF ~IsFinite(x) \/ ~IsFinite(y) THEN NaN
    ELSE LET g1 == GCD(Abs(x[1]), y[2])
             g2 == GCD(Abs(y[1]), x[2])
         IN  <<(x[1] \div g1) * (y[1] \div g2), (x[2] \div g2) * (y[2] \div g1)>>

\* x / y as float64 division does it: 0/0 is nan, x/0 is inf, no exception
RDiv(x, y) ==
    IF ~IsFinite(x) \/ ~IsFinite(y) THEN NaN
    ELSE IF y[1] = 0 THEN (IF x[1] = 0 THEN NaN ELSE <<(IF x[1] > 0 THEN 1 ELSE -1), 0>>)
    ELSE IF y[1] > 0 THEN RMul(x, <<y[2], y[1]>>)
    ELSE RMul(x, <<-y[2], -y[1]>>)

\* 1 - x
ROneMinus(x) == IF IsFinite(x) THEN <<x[2] - x[1], x[2]>> ELSE IF IsNaN(x) THEN NaN ELSE <<-x[1], 0>>

\* a/b compared with c/d (b, d > 0) by their continued fractions: -1, 0 or 1
RECURSIVE Cmp(_, _, _, _)
Cmp(a, b, c, d) ==
    LET q1 == a \div b
        q2 == c \div d
        r1 == a % b
        r2 == c % d
    IN  IF q1 < q2 THEN -1
        ELSE IF q1 > q2 THEN 1
        ELSE IF r1 = 0 /\ r2 = 0 THEN 0
        ELSE IF r1 = 0 THEN -1
        ELSE IF r2 = 0 THEN 1
        ELSE Cmp(d, r2, b, r1)

\* x <= y; false when either is nan, as every float comparison with nan is
RLeq(x, y) == IsFinite(x) /\ IsFinite(y) /\ Cmp(x[1], x[2], y[1], y[2]) <= 0

RLess(x, y) == IsFinite(x) /\ IsFinite(y) /\ Cmp(x[1], x[2], y[1], y[2]) < 0

RMin(x, y) == IF RLeq(x, y) THEN x ELSE y

\* Python's round(): to the nearest integer, a tie to the even one
Round(x) ==
    LET q == x[1] \div x[2]
        r == x[1] % x[2]
    IN  IF 2 * r < x[2] THEN q
        ELSE IF 2 * r > x[2] THEN q + 1
        ELSE IF q % 2 = 0 THEN q ELSE q + 1

\* ------------------------------------------------------------------------
\* get_named_beta_schedule / betas_for_alpha_bar
\* ------------------------------------------------------------------------
\* math.cos is evaluated in fixed point: FP is the scale, PiHalfFP is pi/2
FP == 10000

PiHalfFP == 15708

\* alpha_bar values are kept to this many parts of one, so that products of
\* MaxN + 1 of them stay within the integers of the model checker
AlphaBarParts == 16

\* cos(x / FP) * FP for 0 <= x <= PiHalfFP: the Taylor polynomial of degree 12
CosFP(x) ==
    LET x2 == (x * x) \div FP
        t1 == x2 \div 2
        t2 == (t1 * x2) \div (12 * FP)
        t3 == (t2 * x2) \div (30 * FP)
        t4 == (t3 * x2) \div (56 * FP)
        t5 == (t4 * x2) \div (90 * FP)
        t6 == (t5 * x2) \div (132 * FP)
    IN  FP - t1 + t2 - t3 + t4 - t5 + t6

\* the cosine schedule's lambda t: cos((t + 0.008) / 1.008 * pi / 2) ** 2 at
\* t = i / n, in AlphaBarParts-ths (rounded to the nearest)
cosine_alpha_bar(i, n) ==
    LET x == ((1000 * i + 8 * n) * PiHalfFP) \div (1008 * n)
        c == CosFP(x)
        f == (c * c) \div FP
    IN  (f * AlphaBarParts + FP \div 2) \div FP

max_beta == <<999, 1000>>

\* betas_for_alpha_bar(n, alpha_bar): min(1 - alpha_bar(t2) / alpha_bar(t1), max_beta)
betas_for_alpha_bar(n) ==
    [k \in 1..n |->
        RMin(ROneMinus(RDiv(R(cosine_alpha_bar(k, n)), R(cosine_alpha_bar(k - 1, n)))),
             max_beta)]

\* np.linspace(scale * 0.0001, scale * 0.02, n) with scale = 1000 / n:
\* start 1/(10 n), stop 200/(10 n), n evenly spaced values (one value: the start)
linear_betas(n) ==
    [k \in 1..n |->
        IF n = 1 THEN Norm(1, 10)
        ELSE Norm((n - 1) + 199 * (k - 1), 10 * n * (n - 1))]

SCHEDULE_NAMES == {"linear", "cosine"}

\* [error, betas]; an unknown name raises NotImplementedError
get_named_beta_schedule(schedule_name, n) ==
    IF schedule_name = "linear" THEN [error |-> "none", betas |-> linear_betas(n)]
    ELSE IF schedule_name = "cosine" THEN [error |-> "none", betas |-> betas_for_alpha_bar(n)]
    ELSE [error |-> "NotImplementedError", betas |-> <<>>]

\* ------------------------------------------------------------------------
\* space_timesteps
\* ------------------------------------------------------------------------
\* len(range(0, n, i))
RangeLen(n, i) == (n + i - 1) \div i

\* set(range(0, n, i))
RangeSet(n, i) == {j \in 0..(n - 1) : j % i = 0}

\* the "ddimK" branch: for i in range(1, num_timesteps), first stride that fits
RECURSIVE DdimSearch(_, _, _)
DdimSearch(num_timesteps, desired_count, i) ==
    IF i >= num_timesteps THEN [error |-> "ValueError", steps |-> {}]
    ELSE IF RangeLen(num_timesteps, i) = desired_count
         THEN [error |-> "none", steps |-> RangeSet(num_timesteps, i)]
    ELSE DdimSearch(num_timesteps, desired_count, i + 1)

\* a faulty variant of a section, which strides by size / section_count
TakenStepsShort(start_idx, size, section_count) ==
    LET frac_stride == IF section_count <= 1 THEN R(1)
                       ELSE Norm(size, section_count)
    IN  {start_idx + Round(RMul(R(k), frac_stride)) : k \in 0..(section_count - 1)}

\* one section: taken_steps = start_idx + round(cur_idx), cur_idx += frac_stride
TakenSteps(start_idx, size, section_count) ==
    LET frac_stride == IF section_count <= 1 THEN R(1)
                       ELSE Norm(size - 1, section_count - 1)
    IN  {start_idx + Round(RMul(R(k), frac_stride)) : k \in 0..(section_count - 1)}

\* a faulty variant of the loop over the sections, which accepts every count
RECURSIVE SectionLoopUnchecked(_, _, _, _, _, _)
SectionLoopUnchecked(section_counts, i, size_per, extra, start_idx, all_steps) ==
    IF i > Len(section_counts) THEN [error |-> "none", steps |-> all_steps]
    ELSE LET size == size_per + (IF i - 1 < extra THEN 1 ELSE 0)
         IN  SectionLoopUnchecked(section_counts, i + 1, size_per, extra, start_idx + size,
                                  all_steps \cup TakenSteps(start_idx, size, section_counts[i]))

\* the loop over the sections, from section i on
RECURSIVE SectionLoop(_, _, _, _, _, _)
SectionLoop(section_counts, i, size_per, extra, start_idx, all_steps) ==
    IF i > Len(section_counts) THEN [error |-> "none", steps |-> all_steps]
    ELSE LET size == size_per + (IF i - 1 < extra THEN 1 ELSE 0)
         IN  IF size < section_counts[i] THEN [error |-> "ValueError", steps |-> {}]
             ELSE SectionLoop(section_counts, i + 1, size_per, extra, start_idx + size,
                              all_steps \cup TakenSteps(start_idx, size, section_counts[i]))

\* a faulty variant of space_timesteps, which gives no section an extra index
space_timesteps_even(num_timesteps, section_counts) ==
    IF section_counts.kind = "ddim"
    THEN DdimSearch(num_timesteps, section_counts.count, 1)
    ELSE SectionLoop(section_counts.counts, 1,
                     num_timesteps \div Len(section_counts.counts), 0, 0, {})

\* section_counts is [kind |-> "ddim", count |-> K] for the string "ddimK" and
\* [kind |-> "sections", counts |-> <<...>>] for a list (or comma-separated string)
space_timesteps(num_timesteps, section_counts) ==
    IF section_counts.kind = "ddim"
    THEN DdimSearch(num_timesteps, section_counts.count, 1)
    ELSE SectionLoop(section_counts.counts, 1,
                     num_timesteps \div Len(section_counts.counts),
                     num_timesteps % Len(section_counts.counts), 0, {})

\* ------------------------------------------------------------------------
\* GaussianDiffusion.__init__ : the cumulative-statistics cache
\* ------------------------------------------------------------------------
\* assert (0 < betas).all() and (betas <= 1).all()
BetasInRange(betas) ==
    \A k \in 1..Len(betas) : RLess(R(0), betas[k]) /\ RLeq(betas[k], R(1))

\* np.cumprod
RECURSIVE Cumprod(_, _)
Cumprod(alphas, k) ==
    IF k = 0 THEN <<>>
    ELSE IF k = 1 THEN <<alphas[1]>>
    ELSE LET c == Cumprod(alphas, k - 1)
         IN  Append(c, RMul(c[k - 1], alphas[k]))

\* betas * (1.0 - alphas_cumprod_prev) / (1.0 - alphas_cumprod)
PosteriorVariance(betas, cumprod_prev, cumprod) ==
    [k \in 1..Len(betas) |->
        RDiv(RMul(betas[k], ROneMinus(cumprod_prev[k])), ROneMinus(cumprod[k]))]

NoCache ==
    [alphas_cumprod |-> <<>>, alphas_cumprod_prev |-> <<>>, alphas_cumprod_next |-> <<>>,
     posterior_variance |-> <<>>, posterior_variance_clipped |-> <<>>]

\* [error, num_timesteps, betas, cache]: the object's fields, or the exception
\* the constructor raises
GaussianDiffusion_init(betas) ==
    LET n == Len(betas)
        alphas == [k \in 1..n |-> ROneMinus(betas[k])]
        alphas_cumprod == Cumprod(alphas, n)
        alphas_cumprod_prev == <<R(1)>> \o SubSeq(alphas_cumprod, 1, n - 1)
        alphas_cumprod_next == SubSeq(alphas_cumprod, 2, n) \o <<R(0)>>
        posterior_variance == PosteriorVariance(betas, alphas_cumprod_prev, alphas_cumprod)
        failed(e) == [error |-> e, num_timesteps |-> n, betas |-> betas, cache |-> NoCache]
    IN  IF ~BetasInRange(betas) THEN failed("AssertionError")
        \* alphas_cumprod_prev.shape == (num_timesteps,) fails for an empty schedule
        ELSE IF Len(alphas_cumprod_prev) # n THEN failed("AssertionError")
        \* posterior_variance[1] does not exist in a schedule of one step
        ELSE IF n < 2 THEN failed("IndexError")
        ELSE [error |-> "none", num_timesteps |-> n, betas |-> betas,
              cache |-> [alphas_cumprod |-> alphas_cumprod,
                         alphas_cumprod_prev |-> alphas_cumprod_prev,
                         alphas_cumprod_next |-> alphas_cumprod_next,
                         posterior_variance |-> posterior_variance,
                         posterior_variance_clipped |->
                             <<posterior_variance[2]>> \o SubSeq(posterior_variance, 2, n)]]

\* ------------------------------------------------------------------------
\* SpacedDiffusion.__init__
\* ------------------------------------------------------------------------
\* a faulty variant of the loop below, which never advances last_alpha_cumprod
RECURSIVE RespaceLoopStale(_, _, _, _, _, _)
RespaceLoopStale(alphas_cumprod, use_timesteps, i, last_alpha_cumprod, new_betas, timestep_map) ==
    IF i >= Len(alphas_cumprod) THEN [new_betas |-> new_betas, timestep_map |-> timestep_map]
    ELSE IF i \in use_timesteps
         THEN RespaceLoopStale(alphas_cumprod, use_timesteps, i + 1, last_alpha_cumprod,
                               Append(new_betas,
                                      ROneMinus(RDiv(alphas_cumprod[i + 1], last_alpha_cumprod))),
                               Append(timestep_map, i))
    ELSE RespaceLoopStale(alphas_cumprod, use_timesteps, i + 1, last_alpha_cumprod,
                          new_betas, timestep_map)

\* the loop over enumerate(base_diffusion.alphas_cumprod), from index i on
\* (i counts from 0 as in the source; sequences count from 1)
RECURSIVE RespaceLoop(_, _, _, _, _, _)
RespaceLoop(alphas_cumprod, use_timesteps, i, last_alpha_cumprod, new_betas, timestep_map) ==
    IF i >= Len(alphas_cumprod) THEN [new_betas |-> new_betas, timestep_map |-> timestep_map]
    ELSE IF i \in use_timesteps
         THEN RespaceLoop(alphas_cumprod, use_timesteps, i + 1, alphas_cumprod[i + 1],
                          Append(new_betas,
                                 ROneMinus(RDiv(alphas_cumprod[i + 1], last_alpha_cumprod))),
                          Append(timestep_map, i))
    ELSE RespaceLoop(alphas_cumprod, use_timesteps, i + 1, last_alpha_cumprod,
                     new_betas, timestep_map)

NoSampler ==
    [use_timesteps |-> {}, timestep_map |-> <<>>, original_num_steps |-> 0,
     num_timesteps |-> 0, betas |-> <<>>, cache |-> NoCache, base_alphas_cumprod |-> <<>>,
     base_betas |-> <<>>]

\* [error, at, self]: self holds the fields of the respaced process, the
\* cumulative products of the base process and the betas it was built from
SpacedDiffusion_init(use_timesteps, betas) ==
    LET base_diffusion == GaussianDiffusion_init(betas)
        loop == RespaceLoop(base_diffusion.cache.alphas_cumprod, use_timesteps, 0, R(1),
                            <<>>, <<>>)
        super == GaussianDiffusion_init(loop.new_betas)
        self == [use_timesteps |-> use_timesteps,
                 timestep_map |-> loop.timestep_map,
                 original_num_steps |-> Len(betas),
                 num_timesteps |-> super.num_timesteps,
                 betas |-> super.betas,
                 cache |-> super.cache,
                 base_alphas_cumprod |-> base_diffusion.cache.alphas_cumprod,
                 base_betas |-> betas]
    IN  IF base_diffusion.error # "none"
        THEN [error |-> base_diffusion.error, at |-> "GaussianDiffusion(base)",
              self |-> [NoSampler EXCEPT !.use_timesteps = use_timesteps,
                                         !.original_num_steps = Len(betas),
                                         !.base_betas = betas]]
        ELSE [error |-> super.error,
              at |-> (IF super.error = "none" THEN "none" ELSE "GaussianDiffusion(respaced)"),
              self |-> self]

\* ------------------------------------------------------------------------
\* create_sampler
\* ------------------------------------------------------------------------
NoRespacing == [kind |-> "none", count |-> 0, counts |-> <<>>]

Ddim(k) == [kind |-> "ddim", count |-> k, counts |-> <<>>]

Sections(c) == [kind |-> "sections", count |-> 0, counts |-> c]

\* [error, at, self]
create_sampler(steps, noise_schedule, timestep_respacing) ==
    LET sched == get_named_beta_schedule(noise_schedule, steps)
        respacing == IF timestep_respacing.kind = "none" THEN Sections(<<steps>>)
                     ELSE timestep_respacing
        spaced == space_timesteps(steps, respacing)
    IN  IF sched.error # "none"
        THEN [error |-> sched.error, at |-> "get_named_beta_schedule", self |-> NoSampler]
        ELSE IF spaced.error # "none"
        THEN [error |-> spaced.error, at |-> "space_timesteps",
              self |-> [NoSampler EXCEPT !.original_num_steps = steps,
                                         !.base_betas = sched.betas]]
        ELSE SpacedDiffusion_init(spaced.steps, sched.betas)

\* ------------------------------------------------------------------------
\* State
\* ------------------------------------------------------------------------
VARIABLES
    cfg,             \* the arguments of the calls (never change)
    pc,              \* "create", "failed", "ready", "iter", "rep", "exit", "done", "aborted"
    exc,             \* the exception that ended construction or the loop
    self,            \* the sampler object (SpacedDiffusion fields)
    idx,             \* the loop index of p_sample_loop
    time,            \* the time index of the current loop index
    guidance_flag,   \* the flag computed for the current loop index
    alternate_len,   \* the inner repeat count of the current loop index
    alternate_ii,    \* the inner repetition about to run
    img,             \* the sample
    out,             \* the last repetition: its transition output (mean, sample,
                     \* pred_xstart), the draws it made, the time index and the
                     \* guidance flag it ran under, what the guidance function
                     \* received (x_t) and whether it was invoked (guided)
    loss_idx,        \* the loop index whose guidance call bound loss, variable_dict
                     \* and gradients; -1 while they are unbound
    loss_process,    \* for each logged loss, the loop index it was logged at and
                     \* the loop index of the guidance call that produced it
    time_val_list,   \* the time index of every loop index visited
    model_calls,     \* the timesteps the underlying model received, in call order
    guide_calls,     \* the time index of every measurement_cond_fn call, in call order
    rgb_record       \* the loop index of every record appended to rgb_record_dict

vars == <<cfg, pc, exc, self, idx, time, guidance_flag, alternate_len, alternate_ii, img,
          out, loss_idx, loss_process, time_val_list, model_calls, guide_calls, rgb_record>>

loop_vars == <<idx, time, guidance_flag, alternate_len, alternate_ii, img, out, loss_idx,
               loss_process, time_val_list, model_calls, guide_calls, rgb_record>>

NoExc == [error |-> "none", at |-> "none"]

NoOut ==
    [mean |-> 0, sd |-> 0, noise |-> 0, sample |-> 0, pred_xstart |-> 0,
     sample_added_noise |-> 0, post_noise |-> 0, guided |-> FALSE, x_t |-> 0,
     t |-> 0, guidance_flag |-> FALSE]

\* ------------------------------------------------------------------------
\* The model call of a respaced process
\* ------------------------------------------------------------------------
\* GaussianDiffusion._scale_timesteps
GaussianDiffusion_scale_timesteps(t, rescale_timesteps, num_timesteps) ==
    IF rescale_timesteps THEN RMul(t, Norm(1000, num_timesteps)) ELSE t

\* SpacedDiffusion._scale_timesteps: scaling is done by the wrapped model
SpacedDiffusion_scale_timesteps(t, rescale_timesteps, num_timesteps) == t

\* a faulty variant of _wrap_model, which wraps a wrapped model again
wrap_model_again(model) == model + 1

\* a model is the number of _WrappedModel layers around the underlying network
\* SpacedDiffusion._wrap_model
wrap_model(model) == IF model >= 1 THEN model ELSE model + 1

\* map_tensor[ts]; an index that is no position of the map is an IndexError (-1)
MapIndex(timestep_map, ts) ==
    IF ts[2] = 1 /\ ts[1] >= 0 /\ ts[1] < Len(timestep_map)
    THEN R(timestep_map[ts[1] + 1]) ELSE R(-1)

\* _WrappedModel.__call__ : what the wrapped callable hands on
WrappedModel_call(ts, timestep_map, rescale_timesteps, original_num_steps) ==
    LET new_ts == MapIndex(timestep_map, ts)
    IN  IF rescale_timesteps THEN RMul(new_ts, Norm(1000, original_num_steps)) ELSE new_ts

\* the timestep the underlying network receives from a model of `model` layers
RECURSIVE ModelReceives(_, _, _, _, _)
ModelReceives(model, ts, timestep_map, rescale_timesteps, original_num_steps) ==
    IF model = 0 THEN ts
    ELSE ModelReceives(model - 1,
                       WrappedModel_call(ts, timestep_map, rescale_timesteps,
                                         original_num_steps),
                       timestep_map, rescale_timesteps, original_num_steps)

\* SpacedDiffusion.p_mean_variance -> GaussianDiffusion.p_mean_variance:
\* model(x, self._scale_timesteps(t)) with the model wrapped
p_mean_variance_ts(model, t) ==
    ModelReceives(wrap_model(model),
                  SpacedDiffusion_scale_timesteps(R(t), cfg.rescale_timesteps,
                                                  self.num_timesteps),
                  self.timestep_map, cfg.rescale_timesteps, self.original_num_steps)

\* ------------------------------------------------------------------------
\* Step-transition policies
\* ------------------------------------------------------------------------
\* a faulty variant of DDPM.p_sample, which adds the noise at every index
DDPM_p_sample_noisy(mean, sd, noise, t) == mean + sd * noise

\* DDPM.p_sample: sample = mean; if t != 0: sample += exp(0.5 * log_variance) * noise
DDPM_p_sample(mean, sd, noise, t) ==
    IF t # 0 THEN mean + sd * noise ELSE mean

\* DDIM.p_sample: sample = mean_pred; if t != 0: sample += sigma * noise
DDIM_p_sample(mean_pred, sigma, noise, t) ==
    IF t # 0 THEN mean_pred + sigma * noise ELSE mean_pred

\* the default of DDIM.p_sample's eta; p_sample_loop never passes another
eta == 0

\* a faulty variant of sigma, as if eta were 1
DDIM_sigma_full(roots) == roots

\* the two quotients under the square roots of sigma at time index t:
\* (1 - alpha_bar_prev) / (1 - alpha_bar) and 1 - alpha_bar / alpha_bar_prev
DDIM_radicands(cache, t) ==
    LET alpha_bar == cache.alphas_cumprod[t + 1]
        alpha_bar_prev == cache.alphas_cumprod_prev[t + 1]
    IN  <<RDiv(ROneMinus(alpha_bar_prev), ROneMinus(alpha_bar)),
          ROneMinus(RDiv(alpha_bar, alpha_bar_prev))>>

\* sigma = eta * sqrt(...) * sqrt(...); `roots` is the product of the square roots
DDIM_sigma(roots) == eta * roots

\* ------------------------------------------------------------------------
\* p_sample_loop
\* ------------------------------------------------------------------------
\* lines 235-244, the time index of loop index idx in annealing mode (factor is
\* 1): t = (idx + idx // 4 * cos((steps - idx) / 50)) / steps * 1000, truncated
\* to an integer, clamped to [1, 1000], minus 1; the cosine is evaluated in
\* fixed point (steps - idx up to 78; equal to the float result for steps <= 28)
AnnealingTime(idx_, steps) ==
    LET c == CosFP(((steps - idx_) * FP) \div 50)
        t_fp == idx_ * FP + (idx_ \div 4) * c
        t == (t_fp * 1000) \div (steps * FP)
        clamped == IF t < 1 THEN 1 ELSE IF t > 1000 THEN 1000 ELSE t
    IN  clamped - 1

\* a faulty variant of the guidance flag, which knows the window only
GuidanceFlagWindowOnly(sample_pattern, num_timesteps, t) ==
    /\ RLeq(R(t), RMul(sample_pattern.start_guidance, R(num_timesteps)))
    /\ RLeq(RMul(sample_pattern.stop_guidance, R(num_timesteps)), R(t))

\* the guidance flag of lines 265-268, for a pattern descriptor that is a dict
GuidanceFlag(sample_pattern, num_timesteps, t) ==
    \/ sample_pattern.pattern = "original"
    \/ sample_pattern.pattern = "None"
    \/ /\ RLeq(R(t), RMul(sample_pattern.start_guidance, R(num_timesteps)))
       /\ RLeq(RMul(sample_pattern.stop_guidance, R(num_timesteps)), R(t))

\* utilso.set_alternate_length(sample_pattern, idx, num_timesteps): the external
\* repeat-count policy; `alternate` k >= 1 is the policy "always k", 0 is a policy
\* that changes with the loop index
set_alternate_length(alternate, i) ==
    IF alternate = 0 THEN 1 + (i % MaxAlt) ELSE alternate

\* pretrain_model == 'debka' and not check_prior: the five-value guidance interface
Extended == cfg.pretrain_model = "debka" /\ ~cfg.check_prior

\* create_sampler(...) or the sampler class called directly
CreateSampler ==
    /\ pc = "create"
    /\ LET r == IF cfg.entry = "create_sampler"
                THEN create_sampler(cfg.steps, cfg.noise_schedule, cfg.timestep_respacing)
                ELSE SpacedDiffusion_init(cfg.use_timesteps, cfg.betas)
       IN  /\ pc' = IF r.error = "none" THEN "ready" ELSE "failed"
           /\ exc' = [error |-> r.error, at |-> r.at]
           /\ self' = r.self
    /\ UNCHANGED <<cfg, loop_vars>>

\* p_sample_loop, lines 199-222: the set-up before the loop
LoopStart ==
    /\ pc = "ready"
    /\ \E x_start \in cfg.vals : img' = x_start
    /\ idx' = self.num_timesteps - 1
    /\ pc' = IF self.num_timesteps = 0 THEN "exit" ELSE "iter"
    /\ loss_idx' = -1
    /\ loss_process' = <<>>
    /\ time_val_list' = <<>>
    /\ rgb_record' = <<>>
    /\ UNCHANGED <<cfg, exc, self, time, guidance_flag, alternate_len, alternate_ii, out,
                   model_calls, guide_calls>>

\* lines 225-271: the head of one loop index (linear time addressing)
IterBegin ==
    /\ pc = "iter"
    /\ time' = IF cfg.annealing_time THEN AnnealingTime(idx, self.num_timesteps) ELSE idx
    /\ time_val_list' = Append(time_val_list, time')
    /\ IF ~cfg.sample_pattern.given
       THEN \* sample_pattern['pattern'] on None
            /\ pc' = "aborted"
            /\ exc' = [error |-> "TypeError", at |-> "guidance_flag"]
            /\ UNCHANGED <<guidance_flag, alternate_len, alternate_ii>>
       ELSE /\ guidance_flag' = GuidanceFlag(cfg.sample_pattern, self.num_timesteps, time')
            /\ alternate_len' = set_alternate_length(cfg.alternate, idx)
            /\ alternate_ii' = 0
            /\ pc' = "rep"
            /\ exc' = exc
    /\ UNCHANGED <<cfg, self, idx, img, out, loss_idx, loss_process, model_calls,
                   guide_calls, rgb_record>>

\* lines 272-442: one repetition of the inner loop
Repetition ==
    /\ pc = "rep"
    /\ IF time >= self.num_timesteps
       THEN \* map_tensor[ts] in _WrappedModel.__call__: no such position
            /\ pc' = "aborted"
            /\ exc' = [error |-> "IndexError", at |-> "map_tensor[ts]"]
            /\ UNCHANGED <<idx, alternate_ii, img, out, loss_idx, loss_process,
                           model_calls, guide_calls, rgb_record>>
       ELSE /\ \E mean \in cfg.vals, pred_xstart \in cfg.vals, sd \in cfg.sds,
                  noise \in cfg.noises,
                  noise2 \in (IF Extended /\ cfg.guide_and_sample THEN cfg.noises ELSE {0}),
                  g \in (IF Extended /\ ~guidance_flag THEN {0} ELSE cfg.vals) :
                LET sample == IF cfg.guide_and_sample THEN mean
                              ELSE IF cfg.sampler = "ddpm" THEN DDPM_p_sample(mean, sd, noise, time)
                              ELSE DDIM_p_sample(mean, DDIM_sigma(sd), noise, time)
                    sample_added_noise == IF cfg.guide_and_sample THEN noise * sd ELSE 0
                    guided == IF Extended THEN guidance_flag ELSE TRUE
                    guided_img == IF guided THEN g ELSE sample
                    post_noise == IF Extended /\ cfg.guide_and_sample /\ time # 0
                                  THEN sd * noise2 ELSE 0
                    new_loss_idx == IF guided THEN idx ELSE loss_idx
                    last == alternate_ii = alternate_len - 1
                    raises == Extended /\ last /\ new_loss_idx = -1
                IN  /\ model_calls' = Append(model_calls, p_mean_variance_ts(cfg.model, time))
                    /\ out' = [mean |-> mean, sd |-> sd, noise |-> noise, sample |-> sample,
                               pred_xstart |-> pred_xstart,
                               sample_added_noise |-> sample_added_noise,
                               post_noise |-> post_noise, guided |-> guided, x_t |-> sample,
                               t |-> time, guidance_flag |-> guidance_flag]
                    /\ guide_calls' = IF guided THEN Append(guide_calls, time) ELSE guide_calls
                    /\ img' = guided_img + post_noise
                    /\ loss_idx' = new_loss_idx
                    /\ IF raises
                       THEN \* loss_process.append(loss[0].item()) with loss unbound
                            /\ pc' = "aborted"
                            /\ exc' = [error |-> "UnboundLocalError", at |-> "loss_process.append"]
                            /\ UNCHANGED <<loss_process, alternate_ii, idx, rgb_record>>
                       ELSE /\ exc' = exc
                            /\ loss_process' = IF Extended /\ last
                                               THEN Append(loss_process, <<idx, new_loss_idx>>)
                                               ELSE loss_process
                            \* line 399: the record of this loop index
                            /\ rgb_record' =
                                 IF /\ cfg.record
                                    /\ last
                                    /\ \/ idx % cfg.record_every = 0
                                       \/ idx = 1
                                       \/ idx = 999
                                 THEN Append(rgb_record, idx)
                                 ELSE rgb_record
                            /\ IF ~last
                               THEN /\ alternate_ii' = alternate_ii + 1
                                    /\ pc' = "rep"
                                    /\ idx' = idx
                               ELSE /\ alternate_ii' = alternate_ii
                                    /\ pc' = IF idx = 0 THEN "exit" ELSE "iter"
                                    /\ idx' = IF idx = 0 THEN idx ELSE idx - 1
    /\ UNCHANGED <<cfg, self, time, guidance_flag, alternate_len, time_val_list>>

\* lines 482-511: the return after the loop
Return ==
    /\ pc = "exit"
    /\ IF Extended /\ loss_idx = -1
       THEN /\ pc' = "aborted"
            /\ exc' = [error |-> "UnboundLocalError", at |-> "return"]
       ELSE /\ pc' = "done"
            /\ exc' = exc
    /\ UNCHANGED <<cfg, self, loop_vars>>

Next == CreateSampler \/ LoopStart \/ IterBegin \/ Repetition \/ Return

NextLoop == LoopStart \/ IterBegin \/ Repetition \/ Return

\* ------------------------------------------------------------------------
\* Configurations
\* ------------------------------------------------------------------------
NoPattern ==
    [given |-> FALSE, pattern |-> "None", start_guidance |-> R(0), stop_guidance |-> R(0)]

Pattern(p, start, stop) ==
    [given |-> TRUE, pattern |-> p, start_guidance |-> start, stop_guidance |-> stop]

\* no descriptor, pattern None, 'original', and four windows: every index, the
\* lower half, the upper half, no index
Patterns ==
    {NoPattern, Pattern("None", R(0), R(0)), Pattern("original", R(0), R(0)),
     Pattern("pcgs", R(1), R(0)), Pattern("pcgs", <<1, 2>>, R(0)),
     Pattern("pcgs", R(1), <<1, 2>>), Pattern("pcgs", <<1, 2>>, R(1))}

BetaGrid == {<<1, 2>>, <<1, 1>>}

Respacings ==
    {NoRespacing} \cup {Ddim(k) : k \in 1..MaxN}
    \cup {Sections(<<a>>) : a \in 0..MaxN}
    \cup {Sections(<<a, b>>) : a \in 0..MaxN, b \in 0..MaxN}

LoopInit ==
    /\ exc = NoExc
    /\ idx = 0
    /\ time = 0
    /\ guidance_flag = FALSE
    /\ alternate_len = 0
    /\ alternate_ii = 0
    /\ img = 0
    /\ out = NoOut
    /\ loss_idx = -1
    /\ loss_process = <<>>
    /\ time_val_list = <<>>
    /\ model_calls = <<>>
    /\ guide_calls = <<>>
    /\ rgb_record = <<>>

\* the guidance side of a configuration
GuidanceCfgs ==
    [guide_and_sample : BOOLEAN, pretrain_model : {"debka", "other"},
     check_prior : BOOLEAN, sample_pattern : Patterns]

PlainGuidance ==
    [guide_and_sample |-> FALSE, pretrain_model |-> "other", check_prior |-> FALSE,
     sample_pattern |-> Pattern("original", R(0), R(0))]

\* the values the external collaborators may return: model outputs and guided
\* samples (vals), noise draws (noises), standard deviations (sds)
OneValue == [vals |-> {0}, noises |-> {1}, sds |-> {2}]

TwoValues == [vals |-> {0, 1}, noises |-> {-1, 1}, sds |-> {2}]

Cfg(entry, sampler, steps, noise_schedule, respacing, betas, use_timesteps, rescale, model, gc, alternate, env, annealing_time, recording) ==
    [entry |-> entry, sampler |-> sampler, steps |-> steps,
     noise_schedule |-> noise_schedule, timestep_respacing |-> respacing,
     betas |-> betas, use_timesteps |-> use_timesteps, rescale_timesteps |-> rescale,
     model |-> model, guide_and_sample |-> gc.guide_and_sample,
     pretrain_model |-> gc.pretrain_model, check_prior |-> gc.check_prior,
     sample_pattern |-> gc.sample_pattern, alternate |-> alternate,
     vals |-> env.vals, noises |-> env.noises, sds |-> env.sds,
     annealing_time |-> annealing_time, record |-> recording.record,
     record_every |-> recording.record_every]

\* the default of p_sample_loop's record_every
record_every_default == 150

\* record = False
NoRecord == [record |-> FALSE, record_every |-> record_every_default]

\* record = True with the given stride
Record(stride) == [record |-> TRUE, record_every |-> stride]

HalfBetas(n) == [k \in 1..n |-> <<1, 2>>]

\* every construction, each with one plain loop configuration
InitConstructions ==
    \/ \E steps \in 1..MaxN, name \in SCHEDULE_NAMES \cup {"sqrt"}, rs \in Respacings :
         cfg = Cfg("create_sampler", "ddpm", steps, name, rs, <<>>, {}, FALSE, 0,
                   PlainGuidance, 1, OneValue, FALSE, NoRecord)
    \/ \E steps \in 1..MaxN :
         \E betas \in [1..steps -> BetaGrid], use \in SUBSET (0..(steps - 1)) :
           cfg = Cfg("SpacedDiffusion", "ddpm", steps, "given", NoRespacing, betas, use,
                     FALSE, 0, PlainGuidance, 1, OneValue, FALSE, NoRecord)

\* every guidance configuration and repeat-count policy, on one respaced process
InitGuidance ==
    \E sampler \in {"ddpm", "ddim"}, gc \in GuidanceCfgs, alternate \in 0..MaxAlt :
      cfg = Cfg("SpacedDiffusion", sampler, MaxN, "given", NoRespacing, HalfBetas(MaxN),
                0..(MaxN - 2), FALSE, 0, gc, alternate, TwoValues, FALSE, NoRecord)

\* every way the model is called, on respaced processes of every length
InitModelCalls ==
    \E sampler \in {"ddpm", "ddim"}, rescale \in BOOLEAN, model \in {0, 1},
       steps \in 2..MaxN, gas \in BOOLEAN :
      \E use \in {u \in SUBSET (0..(steps - 1)) : Cardinality(u) >= 2} :
        cfg = Cfg("SpacedDiffusion", sampler, steps, "given", NoRespacing, HalfBetas(steps),
                  use, rescale, model, [PlainGuidance EXCEPT !.guide_and_sample = gas],
                  1, OneValue, FALSE, NoRecord)

\* annealing time addressing, on respaced processes of every length
InitAnnealing ==
    \E sampler \in {"ddpm", "ddim"}, steps \in 2..MaxN, gas \in BOOLEAN :
      \E use \in {u \in SUBSET (0..(steps - 1)) : Cardinality(u) >= 2} :
        cfg = Cfg("SpacedDiffusion", sampler, steps, "given", NoRespacing, HalfBetas(steps),
                  use, FALSE, 0, [PlainGuidance EXCEPT !.guide_and_sample = gas],
                  1, OneValue, TRUE, NoRecord)

\* recording at every stride, for one and two repetitions per loop index
InitRecording ==
    \E stride \in 1..MaxN, alternate \in 1..MaxAlt, pretrain_model \in {"debka", "other"} :
      cfg = Cfg("SpacedDiffusion", "ddpm", MaxN, "given", NoRespacing, HalfBetas(MaxN),
                0..(MaxN - 1), FALSE, 0, [PlainGuidance EXCEPT !.pretrain_model = pretrain_model],
                alternate, OneValue, FALSE, Record(stride))

Init ==
    /\ pc = "create"
    /\ self = NoSampler
    /\ LoopInit
    /\ InitConstructions \/ InitGuidance \/ InitModelCalls \/ InitAnnealing \/ InitRecording

Spec == Init /\ [][Next]_vars

\* ------------------------------------------------------------------------
\* The sampling loop on the 1000-step linear process
\* ------------------------------------------------------------------------
\* the length of the end-to-end process
E2ESteps == 1000

\* timestep_map of SpacedDiffusion.__init__: the members of use_timesteps among
\* lo..hi in increasing order, which is the order in which the loop over
\* enumerate(alphas_cumprod) appends them (computed by halving the range)
RECURSIVE E2ETimestepMap(_, _, _)
E2ETimestepMap(use_timesteps, lo, hi) ==
    IF lo > hi THEN <<>>
    ELSE IF lo = hi THEN (IF lo \in use_timesteps THEN <<lo>> ELSE <<>>)
    ELSE LET mid == (lo + hi) \div 2
         IN  E2ETimestepMap(use_timesteps, lo, mid)
             \o E2ETimestepMap(use_timesteps, mid + 1, hi)

\* the fields of the sampler that p_sample_loop and the model call read; the
\* betas and the cache are not carried at this length
E2ESampler(timestep_respacing) ==
    LET respacing == IF timestep_respacing.kind = "none" THEN Sections(<<E2ESteps>>)
                     ELSE timestep_respacing
        spaced == space_timesteps(E2ESteps, respacing)
        timestep_map == E2ETimestepMap(spaced.steps, 0, E2ESteps - 1)
    IN  [NoSampler EXCEPT !.use_timesteps = spaced.steps,
                          !.timestep_map = timestep_map,
                          !.original_num_steps = E2ESteps,
                          !.num_timesteps = Len(timestep_map)]

\* the range assertion of GaussianDiffusion.__init__ on the 1000 linear betas
E2ERangeAssertion == BetasInRange(get_named_beta_schedule("linear", E2ESteps).betas)

E2EPatterns ==
    {NoPattern, Pattern("original", R(0), R(0)), Pattern("pcgs", <<1, 2>>, R(0))}

\* the state after create_sampler(sampler, 1000, "linear", ...,
\* timestep_respacing = "" or "ddim50") returned
InitE2E ==
    /\ pc = "ready"
    /\ LoopInit
    /\ E2ERangeAssertion = TRUE
    /\ \E run \in {[sampler |-> "ddpm", respacing |-> NoRespacing, patterns |-> {Pattern("original", R(0), R(0))}],
                   [sampler |-> "ddim", respacing |-> Ddim(50), patterns |-> E2EPatterns]} :
         /\ self = E2ESampler(run.respacing)
         /\ \E pretrain_model \in {"debka", "other"}, gas \in BOOLEAN, rescale \in BOOLEAN,
               sample_pattern \in run.patterns :
              cfg = Cfg("create_sampler", run.sampler, E2ESteps, "linear", run.respacing, <<>>,
                        {}, rescale, 0,
                        [guide_and_sample |-> gas, pretrain_model |-> pretrain_model,
                         check_prior |-> FALSE, sample_pattern |-> sample_pattern],
                        1, OneValue, FALSE, NoRecord)

SpecE2E == InitE2E /\ [][NextLoop]_vars

\* ------------------------------------------------------------------------
\* Properties
\* ------------------------------------------------------------------------
\* create_sampler has got as far as calling space_timesteps on "ddimK"
DdimCalled ==
    /\ pc # "create"
    /\ cfg.entry = "create_sampler"
    /\ cfg.timestep_respacing.kind = "ddim"
    /\ exc.at # "get_named_beta_schedule"

\* the positive strides that yield exactly k indices of 0..n-1 (a stride above n
\* yields the same single index as the stride n)
StridesFor(n, k) == {s \in 1..n : RangeLen(n, s) = k}

\* C1: for "ddimK" on N steps, space_timesteps returns {0, s, 2s, ...} for the
\* smallest positive stride s that yields exactly K indices below N, a set of
\* exactly K indices, and raises only when no positive stride yields exactly K
C1_SmallestStride ==
    DdimCalled =>
        LET n == cfg.steps
            k == cfg.timestep_respacing.count
            strides == StridesFor(n, k)
        IN  IF strides = {}
            THEN exc.at = "space_timesteps"
            ELSE /\ exc.at # "space_timesteps"
                 /\ \E s \in strides :
                      /\ \A s2 \in strides : s <= s2
                      /\ self.use_timesteps = RangeSet(n, s)
                 /\ Cardinality(self.use_timesteps) = k

\* create_sampler has built the schedule of a known name
ScheduleBuilt ==
    /\ pc # "create"
    /\ cfg.entry = "create_sampler"
    /\ cfg.noise_schedule \in SCHEDULE_NAMES

\* the cumulative products of 1 - beta never increase and end below their start
CumprodDecreases(betas) ==
    LET n == Len(betas)
        alphas == [k \in 1..n |-> ROneMinus(betas[k])]
        alphas_cumprod == Cumprod(alphas, n)
    IN  /\ \A k \in 1..(n - 1) : RLeq(alphas_cumprod[k + 1], alphas_cumprod[k])
        /\ n >= 2 => RLess(alphas_cumprod[n], alphas_cumprod[1])

\* C2: for every schedule name and every length N >= 1, the schedule has N betas,
\* each in (0, 1], the constructor's range assertion passes, and the cumulative
\* products of 1 - beta are non-increasing
C2_ScheduleInRange ==
    ScheduleBuilt =>
        /\ Len(self.base_betas) = cfg.steps
        /\ BetasInRange(self.base_betas)
        /\ ~(exc.error = "AssertionError" /\ exc.at = "GaussianDiffusion(base)")
        /\ CumprodDecreases(self.base_betas)

\* the respaced process was constructed
Constructed == pc \notin {"create", "failed"}

\* C3: a constructed respaced process has, at every new index k, the cumulative
\* product of the base process at the retained original index timestep_map[k],
\* and the beta 1 - cumprod[timestep_map[k]] / cumprod[timestep_map[k-1]], with
\* 1 in place of the denominator at the first retained index
C3_CumprodRoundTrip ==
    Constructed =>
        /\ Len(self.cache.alphas_cumprod) = Len(self.timestep_map)
        /\ \A k \in 1..Len(self.timestep_map) :
             LET base == self.base_alphas_cumprod
                 last == IF k = 1 THEN R(1) ELSE base[self.timestep_map[k - 1] + 1]
             IN  /\ self.cache.alphas_cumprod[k] = base[self.timestep_map[k] + 1]
                 /\ self.betas[k] = ROneMinus(RDiv(base[self.timestep_map[k] + 1], last))

\* a process that drops original indices, the first one among them, and whose
\* betas differ from those of the base process
C3_Witness ==
    /\ Constructed
    /\ Len(self.timestep_map) >= 2
    /\ Len(self.timestep_map) < self.original_num_steps
    /\ self.timestep_map[1] # 0
    /\ \E k \in 1..Len(self.timestep_map) :
         self.betas[k] # self.base_betas[self.timestep_map[k] + 1]

\* C4: with a pattern descriptor given, whatever the sampler, the respacing, the
\* window, the interface, the order of guiding and sampling and the repeat
\* count, the loop raises nothing and, when it returns, has visited the loop
\* indices K-1 down to 0 once each
C4_LoopCompletes ==
    cfg.sample_pattern.given =>
        /\ pc # "aborted"
        /\ pc = "done" =>
             time_val_list = [k \in 1..self.num_timesteps |-> self.num_timesteps - k]

\* the model was called at least once; out and img are those of the last call
Called == Len(model_calls) > 0

\* timestep_map[t], scaled by 1000 / original_num_steps under rescale_timesteps
MappedTimestep(t) ==
    LET orig == self.timestep_map[t + 1]
    IN  IF cfg.rescale_timesteps THEN Norm(orig * 1000, self.original_num_steps)
        ELSE R(orig)

\* C7: at every model call of a respaced process at new index t, the underlying
\* model receives timestep_map[t], times 1000 / original_num_steps when
\* rescale_timesteps is set; the mapping and the scaling are applied once, also
\* when the model handed in is already wrapped
C7_ModelReceivesOriginal ==
    Called => model_calls[Len(model_calls)] = MappedTimestep(out.t)

\* an already wrapped model, called with rescaling at a new index that differs
\* from its original index
C7_Witness ==
    /\ Called
    /\ cfg.model = 1
    /\ cfg.rescale_timesteps
    /\ self.timestep_map[out.t + 1] # out.t
    /\ self.original_num_steps # self.num_timesteps

\* the guidance predicate as documented, for a descriptor that may be absent
GuidanceActive(sample_pattern, num_timesteps, t) ==
    \/ ~sample_pattern.given
    \/ sample_pattern.pattern \in {"None", "original"}
    \/ /\ RLeq(RMul(sample_pattern.stop_guidance, R(num_timesteps)), R(t))
       /\ RLeq(R(t), RMul(sample_pattern.start_guidance, R(num_timesteps)))

\* C8: the loop evaluates the guidance flag without error, also with no pattern
\* descriptor; the flag is true exactly when the descriptor is absent, its
\* pattern is None or 'original', or the time index lies in the window
\* [stop_guidance * K, start_guidance * K]; and the guidance function is invoked
\* only at repetitions whose flag is true
C8_GuidanceFlag ==
    /\ exc.at # "guidance_flag"
    /\ pc = "rep" => (guidance_flag <=> GuidanceActive(cfg.sample_pattern, self.num_timesteps, time))
    /\ Called /\ out.guided => out.guidance_flag

\* C9: in sample-then-guide mode, after a repetition whose guidance flag is
\* false, the sample is the transition's sample, unmodified, under both
\* guidance interfaces
C9_PassThrough ==
    Called /\ ~cfg.guide_and_sample /\ ~out.guidance_flag => img = out.sample

\* the loop took its last sample from DDPM.p_sample
AncestralStep == Called /\ cfg.sampler = "ddpm" /\ ~cfg.guide_and_sample

\* C10: DDPM.p_sample at time index 0 returns the predicted mean, whatever the
\* noise drawn; at any other index it returns mean + exp(0.5 * log_variance) * noise
C10_NoNoiseAtZero ==
    AncestralStep =>
        IF out.t = 0
        THEN /\ out.sample = out.mean
             /\ \A n \in cfg.noises : DDPM_p_sample(out.mean, out.sd, n, out.t) = out.sample
        ELSE out.sample = out.mean + out.sd * out.noise

\* a transition at index 0 whose noise term is not zero
C10_Witness ==
    /\ AncestralStep
    /\ out.t = 0
    /\ out.sd * out.noise # 0
    /\ Cardinality(cfg.noises) > 1

\* the first end-to-end run: linear, 1000 steps, no respacing, pattern
\* 'original', ancestral transition, repeat count 1
E2EAncestral ==
    /\ cfg.steps = E2ESteps
    /\ cfg.noise_schedule = "linear"
    /\ cfg.timestep_respacing = NoRespacing
    /\ cfg.sample_pattern.given /\ cfg.sample_pattern.pattern = "original"
    /\ cfg.sampler = "ddpm"
    /\ cfg.alternate = 1

\* C5: in the first end-to-end run the k-th repetition calls the model at time
\* index 1000 - k and invokes guidance at that index, nothing raises, and the
\* loop returns after exactly 1000 repetitions, the last one at index 0
C5_AncestralRun ==
    E2EAncestral =>
        /\ pc # "aborted"
        /\ Len(guide_calls) = Len(model_calls)
        /\ Len(model_calls) <= E2ESteps
        /\ \A k \in 1..Len(model_calls) :
             /\ model_calls[k] = R(E2ESteps - k)
             /\ guide_calls[k] = E2ESteps - k
             /\ time_val_list[k] = E2ESteps - k
        /\ pc \in {"exit", "done"} => Len(model_calls) = E2ESteps

\* the first end-to-end run has returned, the last guidance call being at index 0
C5_Witness ==
    /\ E2EAncestral
    /\ pc = "done"
    /\ Len(model_calls) = E2ESteps
    /\ guide_calls[E2ESteps] = 0
    /\ Extended

\* the second end-to-end run: linear, 1000 steps, respacing "ddim50", repeat
\* count 1
E2EDdim50 ==
    /\ cfg.steps = E2ESteps
    /\ cfg.noise_schedule = "linear"
    /\ cfg.timestep_respacing = Ddim(50)
    /\ cfg.alternate = 1

\* C6: in the second end-to-end run, with a pattern descriptor given, the
\* sampler retains exactly 50 original indices, the k-th visit of the loop is at new index 50 - k and calls the
\* model at the original index timestep_map[50 - k], these original indices
\* strictly decrease, nothing raises, and the loop returns after 50 visits
C6_Ddim50Run ==
    E2EDdim50 /\ cfg.sample_pattern.given =>
        /\ Cardinality(self.use_timesteps) = 50
        /\ self.num_timesteps = 50
        /\ pc # "aborted"
        /\ \A k \in 1..Len(time_val_list) : time_val_list[k] = 50 - k
        /\ \A k \in 1..Len(model_calls) :
             /\ model_calls[k] = R(self.timestep_map[50 - k + 1])
             /\ k > 1 => RLess(model_calls[k], model_calls[k - 1])
        /\ pc \in {"exit", "done"} => Len(model_calls) = 50 /\ Len(time_val_list) = 50

\* the loop took its last sample from DDIM.p_sample
DeterministicStep == Called /\ cfg.sampler = "ddim" /\ ~cfg.guide_and_sample

\* C11: DDIM.p_sample with eta = 0 has sigma = 0 at every time index (both
\* quotients under its square roots are finite and not negative), and its
\* sample and pred_xstart are the same for every noise draw: the sample is
\* mean_pred
C11_DdimDeterministic ==
    DeterministicStep =>
        /\ DDIM_sigma(out.sd) = 0
        /\ out.sample = out.mean
        /\ \A n \in cfg.noises :
             DDIM_p_sample(out.mean, DDIM_sigma(out.sd), n, out.t) = out.sample
        /\ self.cache # NoCache =>
             \A t \in 0..(self.num_timesteps - 1) :
               \A q \in {DDIM_radicands(self.cache, t)[1], DDIM_radicands(self.cache, t)[2]} :
                 IsFinite(q) /\ RLeq(R(0), q)

\* a deterministic transition at a nonzero index, with two noise draws possible
\* and a nonzero product of the square roots
C11_Witness ==
    /\ DeterministicStep
    /\ out.t # 0
    /\ out.sd * out.noise # 0
    /\ Cardinality(cfg.noises) > 1
    /\ self.cache # NoCache

\* the list of section counts create_sampler hands to space_timesteps
SectionCounts ==
    IF cfg.timestep_respacing.kind = "none" THEN <<cfg.steps>>
    ELSE cfg.timestep_respacing.counts

\* create_sampler has called space_timesteps in its section-based form
SectionsCalled ==
    /\ pc # "create"
    /\ cfg.entry = "create_sampler"
    /\ cfg.timestep_respacing.kind \in {"none", "sections"}
    /\ exc.at # "get_named_beta_schedule"

\* space_timesteps returned a set in its section-based form
SectionsReturned == SectionsCalled /\ exc.at # "space_timesteps"

\* the partition of 0..n-1 into len contiguous sections: section i (from 1) has
\* n div len indices, one more if it is among the first n mod len
SectionSize(n, len, i) == n \div len + (IF i <= n % len THEN 1 ELSE 0)

SectionStart(n, len, i) == (i - 1) * (n \div len) + Min(i - 1, n % len)

SectionRange(n, len, i) ==
    SectionStart(n, len, i)..(SectionStart(n, len, i) + SectionSize(n, len, i) - 1)

\* C12: the set returned by section-based respacing contains, for every section
\* that requests more than one step, the section's first and last index, and
\* for every section that requests one step, of that section the first index only
C12_SectionEnds ==
    SectionsReturned =>
        \A i \in 1..Len(SectionCounts) :
          LET n == cfg.steps
              len == Len(SectionCounts)
              start == SectionStart(n, len, i)
              size == SectionSize(n, len, i)
              from_section == self.use_timesteps \cap SectionRange(n, len, i)
          IN  /\ SectionCounts[i] > 1 => {start, start + size - 1} \subseteq from_section
              /\ SectionCounts[i] = 1 => from_section = {start}

\* a section strided properly: more than one step, fewer than its size
C12_Witness ==
    /\ SectionsReturned
    /\ \E i \in 1..Len(SectionCounts) :
         /\ SectionCounts[i] > 1
         /\ SectionCounts[i] < SectionSize(cfg.steps, Len(SectionCounts), i)
         /\ ~(SectionRange(cfg.steps, Len(SectionCounts), i) \subseteq self.use_timesteps)

\* some section is asked for more steps than it has
Oversized ==
    \E i \in 1..Len(SectionCounts) :
      SectionCounts[i] > SectionSize(cfg.steps, Len(SectionCounts), i)

\* C13: section-based space_timesteps raises exactly when some requested count
\* exceeds the size of its own section, and then create_sampler ends with that
\* error and no sampler
C13_OversizedSection ==
    SectionsCalled =>
        /\ exc.at = "space_timesteps" <=> Oversized
        /\ exc.at = "space_timesteps" =>
             /\ pc = "failed"
             /\ exc.error = "ValueError"
             /\ self.use_timesteps = {}
             /\ self.num_timesteps = 0

\* the second section is oversized although the first is not and the counts
\* sum to no more than the process length
C13_Witness ==
    /\ SectionsCalled
    /\ exc.at = "space_timesteps"
    /\ Len(SectionCounts) = 2
    /\ SectionCounts[1] <= SectionSize(cfg.steps, 2, 1)
    /\ SectionCounts[2] > SectionSize(cfg.steps, 2, 2)
    /\ SectionCounts[1] + SectionCounts[2] <= cfg.steps

\* the constructor of the base process was called
BaseCalled ==
    /\ pc # "create"
    /\ exc.at \notin {"get_named_beta_schedule", "space_timesteps"}

\* the constructor of the respaced process was called (the base one returned)
RespacedCalled == BaseCalled /\ exc.at # "GaussianDiffusion(base)"

\* a schedule of at least one variance, each in (0, 1]
ValidSchedule(betas) == Len(betas) >= 1 /\ BetasInRange(betas)

\* every cached sequence has the length n, the cumulative product never
\* increases, and the clipped posterior variance repeats its second entry
CacheWellFormed(cache, n) ==
    /\ Len(cache.alphas_cumprod) = n
    /\ Len(cache.alphas_cumprod_prev) = n
    /\ Len(cache.alphas_cumprod_next) = n
    /\ Len(cache.posterior_variance) = n
    /\ Len(cache.posterior_variance_clipped) = n
    /\ \A k \in 1..(n - 1) : RLeq(cache.alphas_cumprod[k + 1], cache.alphas_cumprod[k])
    /\ n >= 2 => cache.posterior_variance_clipped[1] = cache.posterior_variance_clipped[2]

\* C14: for every schedule of N >= 1 variances in (0, 1], the base schedule and
\* a respaced one alike, GaussianDiffusion construction succeeds, every cached
\* sequence has length N, the cumulative product is non-increasing and the
\* clipped posterior variance at index 0 equals the one at index 1
C14_CacheLengths ==
    /\ BaseCalled /\ ValidSchedule(self.base_betas) => exc.at # "GaussianDiffusion(base)"
    /\ RespacedCalled /\ ValidSchedule(self.betas) =>
         /\ exc.at # "GaussianDiffusion(respaced)"
         /\ CacheWellFormed(self.cache, Len(self.betas))

\* the last repetition ran in guide-then-sample mode
GuideThenSample == Called /\ cfg.guide_and_sample

\* C15: in guide-then-sample mode the noise term exp(0.5 * log_variance) * noise
\* is computed before the guidance call, the guidance function receives the
\* model mean without it, and after the guidance call that same term is added
\* once when the time index is not 0 and nothing is added at time index 0,
\* under both guidance interfaces
C15_PrecomputedNoise ==
    GuideThenSample =>
        /\ out.sample_added_noise = out.sd * out.noise
        /\ out.x_t = out.mean
        /\ out.post_noise = IF out.t # 0 THEN out.sample_added_noise ELSE 0

\* C16: in annealing mode every time index the loop computes is a position of
\* the schedule's cached sequences, 0..num_timesteps-1, and loop index 0 gets
\* time index 0
C16_AnnealingTimeInRange ==
    cfg.annealing_time =>
        /\ \A k \in 1..Len(time_val_list) :
             time_val_list[k] \in 0..(self.num_timesteps - 1)
        /\ pc = "rep" /\ idx = 0 => time = 0

\* the loop indices at which recording is due: the first one visited, the last
\* one visited and the multiples of the stride
RecordDue(n, stride) == {i \in 0..(n - 1) : i = n - 1 \/ i = 0 \/ i % stride = 0}

\* the loop indices whose repetitions are all done
LoopIndicesDone == IF pc \in {"exit", "done"} THEN 0..(self.num_timesteps - 1) ELSE (idx + 1)..(self.num_timesteps - 1)

\* C17: with recording enabled, a loop index whose repetitions are done has
\* exactly one record when it is the first index, the last index or a multiple
\* of the stride, and no record otherwise
C17_RecordingPoints ==
    (cfg.record /\ pc \in {"iter", "rep", "exit", "done"}) =>
        \A i \in LoopIndicesDone :
            Cardinality({k \in 1..Len(rgb_record) : rgb_record[k] = i})
              = IF i \in RecordDue(self.num_timesteps, cfg.record_every) THEN 1 ELSE 0

\* the retained set of the process is one space_timesteps returns for its length
RetainedBySpaceTimesteps ==
    \E rs \in Respacings :
        LET n == self.original_num_steps
            spaced == space_timesteps(n, IF rs.kind = "none" THEN Sections(<<n>>) ELSE rs)
        IN  spaced.error = "none" /\ spaced.steps = self.use_timesteps

\* timestep_map enumerates the retained indices in strictly increasing order,
\* within 0..N-1, and num_timesteps is their number
TimestepMapEnumerates ==
    /\ \A k \in 1..(Len(self.timestep_map) - 1) : self.timestep_map[k] < self.timestep_map[k + 1]
    /\ {self.timestep_map[k] : k \in 1..Len(self.timestep_map)} = self.use_timesteps
    /\ \A k \in 1..Len(self.timestep_map) : self.timestep_map[k] \in 0..(self.original_num_steps - 1)
    /\ self.num_timesteps = Cardinality(self.use_timesteps)
    /\ self.num_timesteps = Len(self.timestep_map)

\* a process was constructed on a set space_timesteps returns, and its
\* timestep_map enumerates a proper subset of the original indices
TimestepMapRespaced ==
    /\ Constructed
    /\ RetainedBySpaceTimesteps
    /\ self.num_timesteps >= 2
    /\ self.num_timesteps < self.original_num_steps
    /\ self.timestep_map[1] # 0 \/ self.timestep_map[2] # 1

\* C18: for a retained set produced by space_timesteps, timestep_map is the
\* strictly increasing enumeration of exactly the retained indices, each in
\* 0..N-1, num_timesteps is the number of retained indices, and every time index
\* the loop computes is a position of timestep_map
C18_TimestepMap ==
    (Constructed /\ RetainedBySpaceTimesteps) =>
        /\ TimestepMapEnumerates
        /\ \A k \in 1..Len(time_val_list) :
             time_val_list[k] \in 0..(Len(self.timestep_map) - 1)

\* the loss read at the log or at the return is not bound to any value
LossUnbound == exc.error = "UnboundLocalError" /\ exc.at \in {"loss_process.append", "return"}

\* a logged loss that a guidance call at another loop index produced
LossStale == \E k \in 1..Len(loss_process) : loss_process[k][1] # loss_process[k][2]

\* C19: in the extended guidance mode the loss the loop logs or returns was
\* produced by a guidance call of this run, and the loss logged for a loop index
\* by a guidance call at that loop index
C19_LossFromGuidance ==
    Extended => ~LossUnbound /\ ~LossStale

RECURSIVE Sum(_, _)
Sum(counts, k) == IF k = 0 THEN 0 ELSE Sum(counts, k - 1) + counts[k]

\* the set steps has exactly counts[i] indices in section i of 0..n-1, for every
\* i, and exactly sum(counts) indices in all, each in 0..n-1
CountsHonoured(n, counts, steps) ==
    /\ Cardinality(steps) = Sum(counts, Len(counts))
    /\ steps \subseteq 0..(n - 1)
    /\ \A i \in 1..Len(counts) :
         Cardinality(steps \cap SectionRange(n, Len(counts), i)) = counts[i]

\* the example of the docstring: 300 steps, counts [10, 15, 20]
DocstringExample ==
    LET spaced == space_timesteps(300, Sections(<<10, 15, 20>>))
    IN  spaced.error = "none" /\ CountsHonoured(300, <<10, 15, 20>>, spaced.steps)

\* C20: a set returned by section-based space_timesteps has exactly
\* sum(section_counts) distinct indices of 0..N-1, exactly section_counts[i] of
\* them in section i (as in the docstring's example), and with no respacing
\* requested create_sampler retains 0..N-1
C20_SectionCounts ==
    /\ SectionsReturned => CountsHonoured(cfg.steps, SectionCounts, self.use_timesteps)
    /\ (SectionsCalled /\ cfg.timestep_respacing.kind = "none") =>
          /\ exc.at # "space_timesteps"
          /\ self.use_timesteps = 0..(cfg.steps - 1)
    /\ DocstringExample

\* two sections of different sizes, each asked for some but not all of its
\* indices
C20_Witness ==
    /\ SectionsReturned
    /\ cfg.timestep_respacing.kind = "sections"
    /\ Len(SectionCounts) = 2
    /\ cfg.steps % 2 = 1
    /\ SectionCounts[1] >= 1
    /\ SectionCounts[2] >= 1
    /\ Cardinality(self.use_timesteps) < cfg.steps

====
